---------------------------- MODULE Spec2Model ----------------------------
(***************************************************************************)
(* TailorTalk: the Google Calendar adapter (backend/google_calendar.py),   *)
(* the tool registry (backend/agent.py) and the chat endpoint              *)
(* (backend/main.py).                                                      *)
(*                                                                         *)
(* Time is counted in minutes.  A datetime is a wall-clock reading `local` *)
(* plus, when it is timezone-aware, its UTC offset `off`; its instant is   *)
(* local - off.  An ISO-8601 string is a different record (kind, local,    *)
(* off), so isoformat()/fromisoformat() are real conversions.              *)
(***************************************************************************)
EXTENDS Integers, Sequences, FiniteSets, TLC

(* ------------------------------ bounds -------------------------------- *)

\* adapter calls made in one run, over all callers
MaxCalls == 2

(* ------------------------- program constants -------------------------- *)

\* config.py: TIMEZONE defaults to "Asia/Kolkata", a fixed UTC+05:30 zone
TZOffset == 330

\* minutes in a day (datetime.combine(date, time(h, m)))
DayMinutes == 1440

\* time(23, 59) as minutes after midnight
LastMinute == 1439

TIMEZONE == "Asia/Kolkata"

(* ------------------------------ datetimes ----------------------------- *)

NaiveDT(m) == [local |-> m, aware |-> FALSE, off |-> 0]

AwareDT(m, o) == [local |-> m, aware |-> TRUE, off |-> o]

\* the instant (UTC minutes) of a timezone-aware datetime
Instant(dt) == dt.local - dt.off

\* tz.localize(dt), applied by the code only when dt.tzinfo is None
Localize(dt) == IF dt.aware THEN dt ELSE AwareDT(dt.local, TZOffset)

\* dt + timedelta(minutes = m)
PlusMinutes(dt, m) == [dt EXCEPT !.local = dt.local + m]

\* (a - b).total_seconds() of two aware datetimes
TotalSeconds(a, b) == (Instant(a) - Instant(b)) * 60

Abs(x) == IF x < 0 THEN -x ELSE x

\* the absent string / missing key
NoStr == [kind |-> "none", local |-> 0, off |-> 0]

\* datetime.isoformat(): "...+05:30" for an aware value, no suffix for a
\* naive one
IsoFormat(dt) ==
    [kind |-> IF dt.aware THEN "offset" ELSE "naive", local |-> dt.local, off |-> dt.off]

FromIsoFormat_dropsOffset(raw) == NaiveDT(raw.local)

\* datetime.fromisoformat(raw), with the code's fallback for a trailing "Z"
\* (raw.replace("Z", "+00:00")); a date-only string parses to naive midnight
FromIsoFormat(raw) ==
    CASE raw.kind = "offset" -> AwareDT(raw.local, raw.off)
      [] raw.kind = "Z"      -> AwareDT(raw.local, 0)
      [] OTHER               -> NaiveDT(raw.local)

\* datetime.combine(date, time): a naive datetime
Combine(d, minuteOfDay) == NaiveDT(d * DayMinutes + minuteOfDay)

(* ------------------------------- inputs ------------------------------- *)

Procs == {"p1", "p2"}

NoProc == "nobody"

\* 09:55, 10:00, 11:30 local (naive) and 04:30 UTC = 10:00 local (aware)
T0955 == NaiveDT(595)

T1000 == NaiveDT(600)

T1130 == NaiveDT(690)

U0430 == AwareDT(270, 0)

\* start_time arguments of get_event_id_by_start_time
StartTimes == {T1000, U0430}

\* (new_start_time, new_end_time) of update_event_time
Slots == { <<T1130, NaiveDT(720)>>, <<U0430, AwareDT(300, 0)>> }

NoDesc == "None"

\* arguments of create_event; the last ones end before they start
CreateArgs ==
    { [title |-> "sync", description |-> NoDesc, start |-> T1000, end |-> NaiveDT(630)],
      [title |-> "review", description |-> "notes", start |-> U0430, end |-> AwareDT(300, 0)],
      [title |-> "sync", description |-> NoDesc, start |-> T1000, end |-> T0955] }

\* window_minutes: the default, and one that puts 09:55 on the edge for 10:00
Windows == {5, 60}

Dates == {0, 1}

\* the zone of the machine the process runs on: UTC, or the configured zone
SysOffsets == {0, TZOffset}

TimedStart(raw) == [dateTime |-> raw, date |-> NoStr, timeZone |-> TIMEZONE]

\* events made outside this program (calendar UI, other clients)
ExtZ ==
    [id |-> 1, summary |-> "ext", description |-> "",
     start |-> TimedStart([kind |-> "Z", local |-> 270, off |-> 0]),
     end   |-> TimedStart([kind |-> "Z", local |-> 300, off |-> 0])]

ExtAllDay ==
    [id |-> 1, summary |-> "holiday", description |-> "",
     start |-> [dateTime |-> NoStr, date |-> [kind |-> "date", local |-> 0, off |-> 0],
                timeZone |-> TIMEZONE],
     end   |-> [dateTime |-> NoStr, date |-> [kind |-> "date", local |-> 1440, off |-> 0],
                timeZone |-> TIMEZONE]]

ExtNoStart ==
    [id |-> 1, summary |-> "stub", description |-> "",
     start |-> [dateTime |-> NoStr, date |-> NoStr, timeZone |-> TIMEZONE],
     end   |-> [dateTime |-> NoStr, date |-> NoStr, timeZone |-> TIMEZONE]]

\* an event of 09:55-10:25 local, as the service returns those this program made
Ev0955 ==
    [id |-> 2, summary |-> "sync", description |-> "",
     start |-> TimedStart([kind |-> "offset", local |-> 595, off |-> TZOffset]),
     end   |-> TimedStart([kind |-> "offset", local |-> 625, off |-> TZOffset])]

\* an event of 11:30-12:00 local
Ev1130 ==
    [id |-> 1, summary |-> "lunch", description |-> "out",
     start |-> TimedStart([kind |-> "offset", local |-> 690, off |-> TZOffset]),
     end   |-> TimedStart([kind |-> "offset", local |-> 720, off |-> TZOffset])]

\* the calendars a run starts from; ids are 1..Len
InitCalendars ==
    { <<>>, <<ExtAllDay>>, <<ExtNoStart, Ev0955>>, <<ExtZ, Ev0955>>,
      <<Ev1130, Ev0955>> }

MaxInit == 2


(* ------------------------------- state -------------------------------- *)

VARIABLES
    store,     \* the remote calendar: its events in the order a listing enumerates them
    nextId,    \* the id the remote service assigns to the next inserted event
    sysOff,    \* UTC offset of the system local zone of the host
    pc,        \* per caller: "idle", or "fetched" inside update_event_time
    call,      \* per caller: the adapter call in progress / last made, with its arguments
    fetched,   \* per caller: update_event_time's local `event`
    items,     \* per caller: get_event_id_by_start_time's events_result["items"]
    query,     \* per caller: is_free_on_date's request body
    busy,      \* per caller: is_free_on_date's busy_slots
    ret,       \* per caller: how the last call ended (value returned, or raised)
    failed,    \* per caller: a remote call of the last adapter call failed
    ncalls,    \* adapter calls made so far
    phase,     \* per caller: "direct" (calls the adapter itself) or its chat request's state
    running,   \* the chat request whose handler occupies the event loop, or NoProc
    created,   \* history: the successful create_event calls, <<id, args>> in order
    touched,   \* history: ids on which an update or a delete has been applied
    seen,      \* history, per caller: untouched created ids whose start argument equals
               \*   the start_time of the caller's last resolve, at the time of that call
    lastWrite, \* history, per event id: caller, fetched event and arguments of the
               \*   update write applied last
    race       \* history: <<q, p>> when p fetched an event q had fetched and not yet written

vars ==
    << store, nextId, sysOff, pc, call, fetched, items, query, busy, ret, failed,
       ncalls, phase, running, created, touched, seen, lastWrite, race >>

chatVars == << phase, running >>

(* ------------------------------ records ------------------------------- *)

NoCall ==
    [n |-> 0, op |-> "none", date |-> 0, title |-> "", description |-> "",
     start |-> NaiveDT(0), end |-> NaiveDT(0), id |-> 0, w |-> 0]

\* the record of the next call: n numbers the calls of a run
NewCall(op) == [NoCall EXCEPT !.n = ncalls + 1, !.op = op]

NoEvent ==
    [id |-> 0, summary |-> "", description |-> "",
     start |-> [dateTime |-> NoStr, date |-> NoStr, timeZone |-> ""],
     end   |-> [dateTime |-> NoStr, date |-> NoStr, timeZone |-> ""]]

NoQuery == [timeMin |-> NoStr, timeMax |-> NoStr, timeZone |-> ""]

NoWrite == [by |-> NoProc, event |-> NoEvent, start |-> NaiveDT(0), end |-> NaiveDT(0)]

RetPending == [kind |-> "pending", id |-> 0]

RetTrue == [kind |-> "true", id |-> 0]

RetFalse == [kind |-> "false", id |-> 0]

RetBool(b) == IF b THEN RetTrue ELSE RetFalse

RetId(i) == [kind |-> "id", id |-> i]

RetNone == [kind |-> "absent", id |-> 0]

RetRaise == [kind |-> "raise", id |-> 0]

(* ------------------------ the remote calendar ------------------------- *)

\* the instant the service reads from an ISO string; a string without offset
\* (or a date) is read in the calendar's zone
WhenOfStr(raw) ==
    CASE raw.kind = "offset" -> raw.local - raw.off
      [] raw.kind = "Z"      -> raw.local
      [] OTHER               -> raw.local - TZOffset

\* the start or end of a stored event: its dateTime, else its all-day date
TimeField(part) == IF part.dateTime.kind # "none" THEN part.dateTime ELSE part.date

HasTime(part) == TimeField(part).kind # "none"

WhenOf(part) == WhenOfStr(TimeField(part))

HasId(st, id) == \E i \in 1..Len(st) : st[i].id = id

IndexOf(st, id) == CHOOSE i \in 1..Len(st) : st[i].id = id

\* events().list(timeMin, timeMax, singleEvents=True): the events that end
\* after timeMin and start before timeMax, in the service's order
RemoteList(st, timeMin, timeMax) ==
    SelectSeq(st, LAMBDA e :
        \/ ~HasTime(e.start)
        \/ ~HasTime(e.end)
        \/ /\ WhenOf(e.end) > WhenOfStr(timeMin)
           /\ WhenOf(e.start) < WhenOfStr(timeMax))

\* freebusy().query(body): the busy intervals inside [timeMin, timeMax)
RemoteFreeBusy(st, body) ==
    SelectSeq(st, LAMBDA e :
        /\ HasTime(e.start)
        /\ HasTime(e.end)
        /\ WhenOf(e.end) > WhenOfStr(body.timeMin)
        /\ WhenOf(e.start) < WhenOfStr(body.timeMax))

\* the service refuses a body whose end lies before its start
RemoteAccepts(body) ==
    /\ HasTime(body.start)
    /\ HasTime(body.end)
    /\ WhenOf(body.end) >= WhenOf(body.start)

\* events().insert: the new event takes the fresh id and some place in the
\* service's enumeration order
RemoteInsert(st, body, id, pos) ==
    LET ev == [body EXCEPT !.id = id]
    IN  SubSeq(st, 1, pos - 1) \o <<ev>> \o SubSeq(st, pos, Len(st))

\* events().update: a full replacement of the stored event by the body
RemoteUpdate(st, id, body) == [st EXCEPT ![IndexOf(st, id)] = [body EXCEPT !.id = id]]

\* events().delete
RemoteDelete(st, id) == SelectSeq(st, LAMBDA e : e.id # id)

StoredIds == { store[i].id : i \in 1..Len(store) }

Stored(id) == store[IndexOf(store, id)]

(* --------------------------- the adapter ------------------------------ *)

\* a caller that starts a new call leaves the race it was part of
Unrace(p) == IF \E i \in 1..Len(race) : race[i] = p THEN <<>> ELSE race

\* a caller may start an adapter call: a direct caller at any time, a chat
\* request while its agent is reasoning
CanCall(p) ==
    /\ phase[p] \in {"direct", "reasoning"}
    /\ pc[p] = "idle"
    /\ ncalls < MaxCalls

\* datetime.astimezone(zone): a naive datetime is presumed to be in the
\* system local zone
AsTimezone(dt, o) ==
    IF dt.aware THEN AwareDT(Instant(dt) + o, o)
    ELSE AwareDT(dt.local - sysOff + o, o)

\* is_free_on_date: the request body
FreeBusyBody(d) ==
    LET start == AsTimezone(Combine(d, 0), TZOffset)
        end   == AsTimezone(Combine(d, LastMinute), TZOffset)
    IN  [timeMin |-> IsoFormat(start), timeMax |-> IsoFormat(end), timeZone |-> TIMEZONE]

\* GoogleCalendar.is_free_on_date: no try/except around the remote query
is_free_on_date(p) ==
    /\ CanCall(p)
    /\ \E d \in Dates, ok \in BOOLEAN :
         LET body == FreeBusyBody(d)
             busy_slots == IF ok THEN RemoteFreeBusy(store, body) ELSE <<>>
         IN  /\ call' = [call EXCEPT ![p] = [NewCall("is_free_on_date") EXCEPT !.date = d]]
             /\ query' = [query EXCEPT ![p] = body]
             /\ busy' = [busy EXCEPT ![p] = busy_slots]
             /\ failed' = [failed EXCEPT ![p] = ~ok]
             /\ ret' = [ret EXCEPT ![p] = IF ok THEN RetBool(Len(busy_slots) = 0) ELSE RetRaise]
    /\ ncalls' = ncalls + 1
    /\ UNCHANGED << store, nextId, sysOff, pc, fetched, items, created, touched, seen, lastWrite >>
    /\ race' = Unrace(p)
    /\ UNCHANGED chatVars


\* create_event: the body sent to events().insert
CreateBody(a) ==
    LET start_time == Localize(a.start)
        end_time   == Localize(a.end)
    IN  [id |-> 0,
         summary |-> a.title,
         description |-> IF a.description = NoDesc THEN "" ELSE a.description,
         start |-> [dateTime |-> IsoFormat(start_time), date |-> NoStr, timeZone |-> TIMEZONE],
         end   |-> [dateTime |-> IsoFormat(end_time), date |-> NoStr, timeZone |-> TIMEZONE]]

CreateOutcome_dedup(st, event_body, nid, pos) ==
    LET same == { i \in 1..Len(st) : [st[i] EXCEPT !.id = 0] = event_body }
    IN  IF same # {}
        THEN [store |-> st, id |-> st[CHOOSE i \in same : TRUE].id]
        ELSE [store |-> RemoteInsert(st, event_body, nid, pos), id |-> nid]

\* create_event: events().insert(...).execute() and created_event["id"]
CreateOutcome(st, event_body, nid, pos) ==
    [store |-> RemoteInsert(st, event_body, nid, pos), id |-> nid]

\* GoogleCalendar.create_event: one insert, whose failure propagates
create_event(p) ==
    /\ CanCall(p)
    /\ \E a \in CreateArgs, ok \in BOOLEAN, pos \in {1, Len(store) + 1} :
         LET event_body == CreateBody(a)
             done == ok /\ RemoteAccepts(event_body)
             out  == CreateOutcome(store, event_body, nextId, pos)
         IN  /\ call' = [call EXCEPT ![p] =
                    [NewCall("create_event") EXCEPT !.title = a.title,
                                   !.description = a.description,
                                   !.start = a.start, !.end = a.end]]
             /\ store' = IF done THEN out.store ELSE store
             /\ nextId' = IF done THEN nextId + 1 ELSE nextId
             /\ created' = IF done THEN Append(created, [id |-> out.id, args |-> a]) ELSE created
             /\ failed' = [failed EXCEPT ![p] = ~done]
             /\ ret' = [ret EXCEPT ![p] = IF done THEN RetId(out.id) ELSE RetRaise]
    /\ ncalls' = ncalls + 1
    /\ race' = Unrace(p)
    /\ UNCHANGED << sysOff, pc, fetched, items, query, busy, touched, seen, lastWrite >>
    /\ UNCHANGED chatVars

FetchFailed_raises == RetRaise

\* update_event_time: `except Exception: return False` around events().get
FetchFailed == RetFalse

\* update_event_time, first half: events().get inside the first try
update_fetch(p) ==
    /\ CanCall(p)
    /\ \E id \in 1..nextId, s \in Slots, ok \in BOOLEAN :
         LET found == ok /\ HasId(store, id)
             rival == { q \in Procs \ {p} : pc[q] = "fetched" /\ call[q].id = id }
         IN  /\ call' = [call EXCEPT ![p] =
                    [NewCall("update_event_time") EXCEPT !.id = id,
                                   !.start = s[1], !.end = s[2]]]
             /\ fetched' = [fetched EXCEPT ![p] = IF found THEN Stored(id) ELSE NoEvent]
             /\ pc' = [pc EXCEPT ![p] = IF found THEN "fetched" ELSE "idle"]
             /\ ret' = [ret EXCEPT ![p] = IF found THEN RetPending ELSE FetchFailed]
             /\ failed' = [failed EXCEPT ![p] = ~found]
             /\ race' = IF found /\ rival # {}
                        THEN << CHOOSE q \in rival : TRUE, p >>
                        ELSE Unrace(p)
    /\ ncalls' = ncalls + 1
    /\ UNCHANGED << store, nextId, sysOff, items, query, busy, created, touched, seen, lastWrite >>
    /\ UNCHANGED chatVars

UpdateBody_rebuilt(event, new_start_time, new_end_time) ==
    [NoEvent EXCEPT !.id = event.id,
                    !.start = TimedStart(IsoFormat(Localize(new_start_time))),
                    !.end   = TimedStart(IsoFormat(Localize(new_end_time)))]

UpdateBody_keepsEnd(event, new_start_time, new_end_time) ==
    [event EXCEPT !.start.dateTime = IsoFormat(Localize(new_start_time))]

\* update_event_time: the fetched event with its start and end dateTime
\* overwritten
UpdateBody(event, new_start_time, new_end_time) ==
    [event EXCEPT !.start.dateTime = IsoFormat(Localize(new_start_time)),
                  !.end.dateTime   = IsoFormat(Localize(new_end_time))]

\* update_event_time, second half: events().update inside the second try
update_write(p) ==
    /\ phase[p] \in {"direct", "reasoning"}
    /\ pc[p] = "fetched"
    /\ \E ok \in BOOLEAN :
         LET id   == call[p].id
             body == UpdateBody(fetched[p], call[p].start, call[p].end)
             done == ok /\ HasId(store, id) /\ RemoteAccepts(body)
         IN  /\ store' = IF done THEN RemoteUpdate(store, id, body) ELSE store
             /\ touched' = IF done THEN touched \cup {id} ELSE touched
             /\ lastWrite' = IF done
                             THEN [lastWrite EXCEPT ![id] =
                                      [by |-> p, event |-> fetched[p],
                                       start |-> call[p].start, end |-> call[p].end]]
                             ELSE lastWrite
             /\ failed' = [failed EXCEPT ![p] = ~done]
             /\ ret' = [ret EXCEPT ![p] = RetBool(done)]
    /\ pc' = [pc EXCEPT ![p] = "idle"]
    /\ UNCHANGED << nextId, sysOff, call, fetched, items, query, busy, ncalls, created,
                    seen, race >>
    /\ UNCHANGED chatVars

\* GoogleCalendar.cancel_event: events().delete inside a try
cancel_event(p) ==
    /\ CanCall(p)
    /\ \E id \in 1..nextId, ok \in BOOLEAN :
         LET done == ok /\ HasId(store, id)
         IN  /\ call' = [call EXCEPT ![p] = [NewCall("cancel_event") EXCEPT !.id = id]]
             /\ store' = IF done THEN RemoteDelete(store, id) ELSE store
             /\ touched' = IF done THEN touched \cup {id} ELSE touched
             /\ failed' = [failed EXCEPT ![p] = ~done]
             /\ ret' = [ret EXCEPT ![p] = RetBool(done)]
    /\ ncalls' = ncalls + 1
    /\ race' = Unrace(p)
    /\ UNCHANGED << nextId, sysOff, pc, fetched, items, query, busy, created, seen, lastWrite >>
    /\ UNCHANGED chatVars

\* get_event_id_by_start_time: raw_start of a listed item
RawStart(event) ==
    IF event.start.dateTime.kind # "none" THEN event.start.dateTime ELSE event.start.date

RECURSIVE ScanItems_strict(_, _, _, _)
ScanItems_strict(its, i, start_time, window_minutes) ==
    IF i > Len(its) THEN RetNone
    ELSE IF RawStart(its[i]).kind = "none"
         THEN ScanItems_strict(its, i + 1, start_time, window_minutes)
         ELSE LET ev_dt == Localize(FromIsoFormat(RawStart(its[i])))
              IN  IF Abs(TotalSeconds(ev_dt, start_time)) < window_minutes * 60
                  THEN RetId(its[i].id)
                  ELSE ScanItems_strict(its, i + 1, start_time, window_minutes)

\* get_event_id_by_start_time: the scan of events_result["items"] from item i
RECURSIVE ScanItems(_, _, _, _)
ScanItems(its, i, start_time, window_minutes) ==
    IF i > Len(its) THEN RetNone
    ELSE IF RawStart(its[i]).kind = "none"
         THEN ScanItems(its, i + 1, start_time, window_minutes)
         ELSE LET ev_dt == Localize(FromIsoFormat(RawStart(its[i])))
              IN  IF Abs(TotalSeconds(ev_dt, start_time)) <= window_minutes * 60
                  THEN RetId(its[i].id)
                  ELSE ScanItems(its, i + 1, start_time, window_minutes)

\* GoogleCalendar.get_event_id_by_start_time: one listing, whose failure
\* propagates, then the scan
get_event_id_by_start_time(p) ==
    /\ CanCall(p)
    /\ \E t \in StartTimes, w \in Windows, ok \in BOOLEAN :
         LET start_time  == Localize(t)
             time_min_dt == PlusMinutes(start_time, -w)
             time_max_dt == PlusMinutes(start_time, w)
             listing     == IF ok
                            THEN RemoteList(store, IsoFormat(time_min_dt), IsoFormat(time_max_dt))
                            ELSE <<>>
         IN  /\ call' = [call EXCEPT ![p] =
                    [NewCall("get_event_id_by_start_time") EXCEPT !.start = t, !.w = w]]
             /\ items' = [items EXCEPT ![p] = listing]
             /\ seen' = [seen EXCEPT ![p] =
                    { created[i].id : i \in { j \in 1..Len(created) :
                          /\ created[j].args.start = t
                          /\ created[j].id \notin touched } }]
             /\ failed' = [failed EXCEPT ![p] = ~ok]
             /\ ret' = [ret EXCEPT ![p] = IF ok THEN ScanItems(listing, 1, start_time, w)
                                          ELSE RetRaise]
    /\ ncalls' = ncalls + 1
    /\ race' = Unrace(p)
    /\ UNCHANGED << store, nextId, sysOff, pc, fetched, query, busy, created, touched, lastWrite >>
    /\ UNCHANGED chatVars

(* ------------------- the chat endpoint and the agent ------------------ *)

LoopIdle_reentrant == TRUE

\* the event loop runs one coroutine at a time, and `chat` is an async def
\* that calls the blocking agent.run without awaiting anything: the loop is
\* free only when no handler is inside agent.run
LoopIdle == running = NoProc

\* the handler starts: booking_agent.agent.run(req.message)
chat_start(r) ==
    /\ phase[r] = "queued"
    /\ LoopIdle
    /\ phase' = [phase EXCEPT ![r] = "reasoning"]
    /\ running' = r
    /\ UNCHANGED << store, nextId, sysOff, pc, call, fetched, items, query, busy, ret,
                    failed, ncalls, created, touched, seen, lastWrite, race >>

\* agent.run returns the reply; the handler returns {"response": resp}
chat_return(r) ==
    /\ phase[r] = "reasoning"
    /\ pc[r] = "idle"
    /\ phase' = [phase EXCEPT ![r] = "responded"]
    /\ running' = NoProc
    /\ UNCHANGED << store, nextId, sysOff, pc, call, fetched, items, query, busy, ret,
                    failed, ncalls, created, touched, seen, lastWrite, race >>

\* agent.run raises (the handler has no try): the request fails
chat_fail(r) ==
    /\ phase[r] = "reasoning"
    /\ pc[r] = "idle"
    /\ phase' = [phase EXCEPT ![r] = "failed"]
    /\ running' = NoProc
    /\ UNCHANGED << store, nextId, sysOff, pc, call, fetched, items, query, busy, ret,
                    failed, ncalls, created, touched, seen, lastWrite, race >>

(* --------------------------- specifications --------------------------- *)

IdSpace == 1..(MaxInit + MaxCalls + 1)

InitCommon ==
    /\ store \in InitCalendars
    /\ nextId = Len(store) + 1
    /\ sysOff \in SysOffsets
    /\ pc = [p \in Procs |-> "idle"]
    /\ call = [p \in Procs |-> NoCall]
    /\ fetched = [p \in Procs |-> NoEvent]
    /\ items = [p \in Procs |-> <<>>]
    /\ query = [p \in Procs |-> NoQuery]
    /\ busy = [p \in Procs |-> <<>>]
    /\ ret = [p \in Procs |-> RetPending]
    /\ failed = [p \in Procs |-> FALSE]
    /\ ncalls = 0
    /\ running = NoProc
    /\ created = <<>>
    /\ touched = {}
    /\ seen = [p \in Procs |-> {}]
    /\ lastWrite = [i \in IdSpace |-> NoWrite]
    /\ race = <<>>

\* the adapter called by independent callers (several worker processes or
\* clients against the one remote calendar)
Init ==
    /\ InitCommon
    /\ phase = [p \in Procs |-> "direct"]

Next ==
    \E p \in Procs :
        \/ is_free_on_date(p)
        \/ create_event(p)
        \/ update_fetch(p)
        \/ update_write(p)
        \/ cancel_event(p)
        \/ get_event_id_by_start_time(p)

Spec == Init /\ [][Next]_vars

\* one server process: the chat requests it has received, handled on its
\* event loop; the agent of a request in the reasoning state invokes the
\* tools, each an adapter call
InitChat ==
    /\ InitCommon
    /\ store = <<Ev1130, Ev0955>>
    /\ phase = [p \in Procs |-> "queued"]

NextChat ==
    \E r \in Procs :
        \/ chat_start(r)
        \/ is_free_on_date(r)
        \/ create_event(r)
        \/ update_fetch(r)
        \/ update_write(r)
        \/ cancel_event(r)
        \/ get_event_id_by_start_time(r)
        \/ chat_return(r)
        \/ chat_fail(r)

SpecChat == InitChat /\ [][NextChat]_vars


(* ------------------------------- claims ------------------------------- *)

\* the instant an argument datetime denotes: a naive one is read in the
\* configured default zone
ArgInstant(dt) == IF dt.aware THEN dt.local - dt.off ELSE dt.local - TZOffset

\* the ISO string of an argument datetime qualified with the default zone
ArgIso(dt) ==
    [kind |-> "offset", local |-> dt.local, off |-> IF dt.aware THEN dt.off ELSE TZOffset]

\* caller p has finished a call of operation op
Finished(p, op) == call[p].op = op /\ pc[p] = "idle" /\ ret[p] # RetPending

BoolOps == {"is_free_on_date", "update_event_time", "cancel_event"}

\* C1: a boolean-returning operation (is_free_on_date, update_event_time,
\* cancel_event) one of whose remote calls failed does not raise: it
\* returns false.
C1_BooleanOpsReturnFalse ==
    \A p \in Procs :
        (call[p].op \in BoolOps /\ pc[p] = "idle" /\ failed[p]) => ret[p] = RetFalse

\* items of a listing whose start lies within w minutes of instant t
Hits(its, t, w) ==
    { i \in 1..Len(its) : HasTime(its[i].start) /\ Abs(WhenOf(its[i].start) - t) <= w }

MinOf(S) == CHOOSE i \in S : \A j \in S : i <= j

PosIn(its, x) ==
    IF \E i \in 1..Len(its) : its[i].id = x
    THEN CHOOSE i \in 1..Len(its) : its[i].id = x
    ELSE 0

C4_FullDayInConfiguredZone ==
    \A p \in Procs :
        (Finished(p, "is_free_on_date") /\ ~failed[p]) =>
            /\ WhenOfStr(query[p].timeMin) = call[p].date * DayMinutes - TZOffset
            /\ WhenOfStr(query[p].timeMax) = call[p].date * DayMinutes + LastMinute - TZOffset
            /\ (ret[p] = RetTrue <=> busy[p] = <<>>)
            /\ ret[p] \in {RetTrue, RetFalse}

\* C6: update_event_time on an id that is not in the calendar returns false
\* without raising, goes on to no update call and leaves the calendar as it
\* was.
C6_UpdateMissingId ==
    [][ \A p \in Procs :
          ( /\ call'[p] # call[p]
            /\ call'[p].op = "update_event_time"
            /\ ~HasId(store, call'[p].id) ) =>
              ( /\ ret'[p] = RetFalse
                /\ pc'[p] = "idle"
                /\ store' = store
                /\ lastWrite' = lastWrite ) ]_vars

\* an update of an id the service never assigned has returned false, the
\* remote fetch having failed
C6_Witness ==
    \E p \in Procs :
        /\ Finished(p, "update_event_time")
        /\ call[p].id = nextId
        /\ Len(store) > 0
        /\ failed[p]
        /\ ret[p] = RetFalse

\* C7: create_event does no deduplication: successful calls with identical
\* arguments get distinct ids and each leaves an event of its own.
C7_NoDedup ==
    \A i, j \in 1..Len(created) :
        (i < j /\ created[i].args = created[j].args) =>
            /\ created[i].id # created[j].id
            /\ \A k \in {i, j} :
                  created[k].id \notin touched =>
                      /\ HasId(store, created[k].id)
                      /\ Stored(created[k].id).summary = created[k].args.title
                      /\ WhenOf(Stored(created[k].id).start) = ArgInstant(created[k].args.start)
            /\ Cardinality({ n \in 1..Len(store) : store[n].id \in {created[i].id, created[j].id} })
                   = Cardinality({created[i].id, created[j].id} \cap StoredIds)

\* two creations with identical arguments have succeeded and both events
\* are in the calendar
C7_Witness ==
    /\ Len(created) = 2
    /\ created[1].args = created[2].args
    /\ {created[1].id, created[2].id} \subseteq StoredIds
    /\ Len(store) >= 2

\* C8: no two chat requests are in the reasoning state at once, and only
\* the request that holds the event loop is inside a tool call.
C8_OneReasoning ==
    /\ Cardinality({ r \in Procs : phase[r] = "reasoning" }) <= 1
    /\ \A r \in Procs : phase[r] = "reasoning" => running = r
    /\ \A r \in Procs : pc[r] # "idle" => running = r

\* a request is between the two remote calls of a tool while another one
\* waits for the event loop
C8_Witness ==
    \E r, q \in Procs :
        /\ phase[r] = "reasoning"
        /\ pc[r] = "fetched"
        /\ phase[q] = "queued"

\* C9: an update whose write succeeds, nobody having written the event
\* since its fetch, returns true and changes only the start and end
\* dateTime of that event, to the new values; every other field and every
\* other event stay as they were.
C9_UpdateFrame ==
    [][ \A p \in Procs :
          ( /\ pc[p] = "fetched"
            /\ pc'[p] = "idle"
            /\ store' # store \/ ret'[p] = RetTrue
            /\ HasId(store, call[p].id)
            /\ Stored(call[p].id) = fetched[p] ) =>
              ( /\ ret'[p] = RetTrue
                /\ store' = [store EXCEPT ![IndexOf(store, call[p].id)] =
                                [@ EXCEPT !.start.dateTime = ArgIso(call[p].start),
                                          !.end.dateTime   = ArgIso(call[p].end)]] ) ]_vars

\* an update has moved an event that has a title, in a calendar of two
\* events
C9_Witness ==
    \E p \in Procs :
        /\ Finished(p, "update_event_time")
        /\ ret[p] = RetTrue
        /\ HasId(store, call[p].id)
        /\ lastWrite[call[p].id].by = p
        /\ Stored(call[p].id).summary # ""
        /\ Stored(call[p].id).start # fetched[p].start
        /\ Len(store) >= 2

\* C10: when two overlapping updates of one event have both returned true,
\* the stored event is the body of the write applied last: that call's new
\* start and end, and for the rest what that call fetched.
C10_LastWriteWins ==
    \A p, q \in Procs :
        ( /\ race = <<q, p>>
          /\ Finished(p, "update_event_time")
          /\ Finished(q, "update_event_time")
          /\ ret[p] = RetTrue
          /\ ret[q] = RetTrue
          /\ call[p].id = call[q].id ) =>
            LET id == call[p].id
                lw == lastWrite[id]
            IN  /\ HasId(store, id)
                /\ lw.by \in {p, q}
                /\ lw.event = fetched[lw.by]
                /\ lw.start = call[lw.by].start
                /\ lw.end = call[lw.by].end
                /\ call[lw.by].n # call[IF lw.by = p THEN q ELSE p].n
                /\ Stored(id) = [fetched[lw.by] EXCEPT
                                    !.start.dateTime = ArgIso(call[lw.by].start),
                                    !.end.dateTime   = ArgIso(call[lw.by].end)]

\* both overlapping updates returned true and the one that fetched first
\* wrote last, with other times than its rival
C10_Witness ==
    \E p, q \in Procs :
        /\ race = <<q, p>>
        /\ Finished(p, "update_event_time")
        /\ Finished(q, "update_event_time")
        /\ ret[p] = RetTrue
        /\ ret[q] = RetTrue
        /\ call[p].id = call[q].id
        /\ lastWrite[call[p].id].by = q
        /\ call[p].start # call[q].start

=============================================================================
